---- MODULE Spec2Model ----
(***************************************************************************)
(* Model of binder's DNS update helpers (src/binder/helpers.py): the       *)
(* calls add_record, add_cname_record and delete_record, the helpers       *)
(* create_update, create_keyring and send_dns_update they go through, and  *)
(* the two regular expressions that split a dotted name.                   *)
(*                                                                         *)
(* Text the code takes apart (names, addresses, record identifiers) is a   *)
(* sequence of one-character strings, so that the regular expressions and  *)
(* dns.reversename.from_address are computed character by character.       *)
(***************************************************************************)
EXTENDS Integers, Sequences, FiniteSets, TLC

\* ------------------------------------------------------------------ bounds

\* Longest rr_list handed to delete_record.
MaxRRs == 2

\* ------------------------------------------------------------ text helpers

Digits == {"0", "1", "2", "3", "4", "5", "6", "7", "8", "9"}

HexLetters == {"a", "b", "c", "d", "e", "f"}

Letters ==
    {"a", "b", "c", "d", "e", "f", "g", "h", "i", "j", "k", "l", "m",
     "n", "o", "p", "q", "r", "s", "t", "u", "v", "w", "x", "y", "z",
     "A", "B", "C", "D", "E", "F", "G", "H", "I", "J", "K", "L", "M",
     "N", "O", "P", "Q", "R", "S", "T", "U", "V", "W", "X", "Y", "Z"}

\* The class \w of Python's re module (ASCII).
WordChars == Letters \cup Digits \cup {"_"}

Dot == <<".">>

Min(S) == CHOOSE x \in S : \A y \in S : x <= y

\* s[i..] ; the empty sequence when i is past the end.
Tail_From(s, i) == SubSeq(s, i, Len(s))

\* ".".join(parts)
RECURSIVE Join(_)
Join(parts) ==
    IF Len(parts) = 0 THEN <<>>
    ELSE IF Len(parts) = 1 THEN parts[1]
    ELSE parts[1] \o Dot \o Join(Tail(parts))

\* text.split(sep): the pieces between the occurrences of the character sep.
RECURSIVE SplitOn(_, _)
SplitOn(s, sep) ==
    LET hits == {i \in 1..Len(s) : s[i] = sep}
    IN  IF hits = {} THEN <<s>>
        ELSE <<SubSeq(s, 1, Min(hits) - 1)>> \o SplitOn(Tail_From(s, Min(hits) + 1), sep)

\* parts.reverse()
Reverse(parts) == [i \in 1..Len(parts) |-> parts[Len(parts) + 1 - i]]

DigitValue(c) ==
    CASE c = "0" -> 0 [] c = "1" -> 1 [] c = "2" -> 2 [] c = "3" -> 3
      [] c = "4" -> 4 [] c = "5" -> 5 [] c = "6" -> 6 [] c = "7" -> 7
      [] c = "8" -> 8 [] c = "9" -> 9

DigitChar(n) ==
    CASE n = 0 -> "0" [] n = 1 -> "1" [] n = 2 -> "2" [] n = 3 -> "3"
      [] n = 4 -> "4" [] n = 5 -> "5" [] n = 6 -> "6" [] n = 7 -> "7"
      [] n = 8 -> "8" [] n = 9 -> "9"

\* int(part) for a sequence of decimal digits.
RECURSIVE ParseDec(_)
ParseDec(s) ==
    IF Len(s) = 0 THEN 0
    ELSE 10 * ParseDec(SubSeq(s, 1, Len(s) - 1)) + DigitValue(s[Len(s)])

\* '%d' % n for n >= 0.
RECURSIVE ToDec(_)
ToDec(n) ==
    IF n < 10 THEN <<DigitChar(n)>>
    ELSE ToDec(n \div 10) \o <<DigitChar(n % 10)>>

\* --------------------------------------------- dns.reversename.from_address

HexDigits == Digits \cup HexLetters

AllIn(s, Class) == \A i \in 1..Len(s) : s[i] \in Class

\* dns.ipv4.inet_aton accepts four dot-separated decimal parts, each without
\* a leading zero and at most 255.
IsIPv4Text(text) ==
    LET parts == SplitOn(text, ".")
    IN  /\ Len(parts) = 4
        /\ \A k \in 1..4 :
              /\ Len(parts[k]) >= 1
              /\ AllIn(parts[k], Digits)
              /\ (Len(parts[k]) > 1 => parts[k][1] # "0")
              /\ Len(parts[k]) <= 3
              /\ ParseDec(parts[k]) <= 255

\* dns.ipv6.inet_aton, for the uncompressed text form (eight colon-separated
\* groups of one to four lower-case hex digits); the "::" shorthand is not
\* among the inputs of this model.
IsIPv6Text(text) ==
    LET groups == SplitOn(text, ":")
    IN  /\ Len(groups) = 8
        /\ \A k \in 1..8 :
              /\ Len(groups[k]) \in 1..4
              /\ AllIn(groups[k], HexDigits)

\* One group left-padded with zeros to four hex digits.
PadGroup(g) == [i \in 1..(4 - Len(g)) |-> "0"] \o g

\* The 32 nibbles of the packed address, as hex_codec prints them.
RECURSIVE Nibbles(_)
Nibbles(groups) ==
    IF Len(groups) = 0 THEN <<>>
    ELSE PadGroup(groups[1]) \o Nibbles(Tail(groups))

InAddrArpa == <<"i", "n", "-", "a", "d", "d", "r", ".", "a", "r", "p", "a", ".">>

Ip6Arpa == <<"i", "p", "6", ".", "a", "r", "p", "a", ".">>

\* str(dns.reversename.from_address(text)): the address is tried as IPv6,
\* then as IPv4; the labels are the nibbles (IPv6) or the '%d' of each byte
\* (IPv4) in reverse order, under ip6.arpa. or in-addr.arpa.  Text that is
\* neither raises dns.exception.SyntaxError (ok = FALSE).
from_address(text) ==
    IF IsIPv6Text(text)
    THEN LET nib == Nibbles(SplitOn(text, ":"))
             parts == [i \in 1..Len(nib) |-> <<nib[i]>>]
         IN  [ok |-> TRUE, name |-> Join(Reverse(parts)) \o Dot \o Ip6Arpa]
    ELSE IF IsIPv4Text(text)
    THEN LET octets == SplitOn(text, ".")
             parts == [k \in 1..4 |-> ToDec(ParseDec(octets[k]))]
         IN  [ok |-> TRUE, name |-> Join(Reverse(parts)) \o Dot \o InAddrArpa]
    ELSE [ok |-> FALSE, name |-> <<>>]

\* ------------------------------------------------------ regular expressions

NoMatch == [matched |-> FALSE, group1 |-> <<>>, group2 |-> <<>>]

\* Last index of the maximal run of Class characters that starts at s[i].
RunEnd(s, i, Class) ==
    LET stops == {j \in i..Len(s) : s[j] \notin Class}
    IN  IF stops = {} THEN Len(s) ELSE Min(stops) - 1

\* The same for "([0-9]).(.*)$", the expression with its "+" left out: one
\* digit only.
DigitGroupEnd_OneDigit(s, i) == IF i < Len(s) THEN i ELSE i - 1

\* Where "[0-9]+" ends when "([0-9]+).(.*)$" is tried at position i: the run
\* of digits is taken whole, unless it reaches the end of the text, and then
\* it gives its last digit back to the "." that must follow.
DigitGroupEnd(s, i) ==
    LET j == RunEnd(s, i, Digits)
    IN  IF j < Len(s) THEN j ELSE j - 1

\* re.search(r"([0-9]+).(.*)$", s): the leftmost position where one or more
\* digits are followed by any one character; group 1 is the digits, group 2
\* everything after that one character.
SearchDigits(s) ==
    LET starts == {i \in 1..Len(s) : s[i] \in Digits /\ DigitGroupEnd(s, i) >= i}
    IN  IF starts = {} THEN NoMatch
        ELSE LET i == Min(starts)
                 j == DigitGroupEnd(s, i)
             IN  [matched |-> TRUE,
                  group1  |-> SubSeq(s, i, j),
                  group2  |-> Tail_From(s, j + 2)]

\* re.search(r"(\w+)\.(.*)$", s): the leftmost position where a run of word
\* characters is followed by a literal dot; group 1 is that run from the
\* position on, group 2 everything after the dot.
SearchWord(s) ==
    LET starts == {i \in 1..Len(s) :
                      /\ s[i] \in WordChars
                      /\ RunEnd(s, i, WordChars) < Len(s)
                      /\ s[RunEnd(s, i, WordChars) + 1] = "."}
    IN  IF starts = {} THEN NoMatch
        ELSE LET i == Min(starts)
                 j == RunEnd(s, i, WordChars)
             IN  [matched |-> TRUE,
                  group1  |-> SubSeq(s, i, j),
                  group2  |-> Tail_From(s, j + 2)]

\* ------------------------------------------------------------------ inputs

\* Octets the sample addresses are built from: one, two and three digits,
\* zero, and the octets of 10.20.0.5.
Octets == {0, 5, 10, 20, 255}

IPv4Texts ==
    {Join(<<ToDec(a), ToDec(b), ToDec(c), ToDec(d)>>) : a, b, c, d \in Octets}

IPv6Prefix ==
    <<"2", "0", "0", "1", ":", "d", "b", "8", ":", "0", ":", "0", ":",
      "0", ":", "0", ":", "0", ":">>

\* Last group of the sample IPv6 addresses: the lowest nibble is a digit in
\* "1" and "a5", a hex letter in "a" and "5a".
IPv6LastGroups == {<<"1">>, <<"a">>, <<"a", "5">>, <<"5", "a">>}

IPv6AllF ==
    <<"f", "f", "f", "f", ":", "f", "f", "f", "f", ":", "f", "f", "f", "f", ":",
      "f", "f", "f", "f", ":", "f", "f", "f", "f", ":", "f", "f", "f", "f", ":",
      "f", "f", "f", "f", ":", "f", "f", "f", "f">>

IPv6Texts == {IPv6Prefix \o g : g \in IPv6LastGroups} \cup {IPv6AllF}

\* "web.example.com."
HostText ==
    <<"w", "e", "b", ".", "e", "x", "a", "m", "p", "l", "e", ".", "c", "o", "m", ".">>

\* (record_type, record_data) pairs a caller submits.
TypedData ==
    ({"A"} \X IPv4Texts) \cup ({"AAAA"} \X IPv6Texts)
        \cup ({"CNAME"} \X {HostText})
        \cup ({"TXT"} \X {HostText, Join(<<ToDec(10), ToDec(20), ToDec(0), ToDec(5)>>)})

\* "example.com"
ZoneText == <<"e", "x", "a", "m", "p", "l", "e", ".", "c", "o", "m">>

\* "host1"
Host1 == <<"h", "o", "s", "t", "1">>

\* "my-host"
MyHost == <<"m", "y", "-", "h", "o", "s", "t">>

\* "www"
Www == <<"w", "w", "w">>

\* "localhost"
Localhost == <<"l", "o", "c", "a", "l", "h", "o", "s", "t">>

RecordNames == {Host1}

CnameNames == {Www, MyHost}

\* Identifiers a caller selects for deletion: "www.example.com",
\* "my-host.example.com", and "localhost", which has no dot at all.
RRIdentifiers == {Www \o Dot \o ZoneText, MyHost \o Dot \o ZoneText, Localhost}

RRLists == UNION {[1..n -> RRIdentifiers] : n \in 1..MaxRRs}

TTLs == {300}

DnsServers == {"ns1.example.com"}

\* ------------------------------------------------------------------- keys

\* Python's None as a key name.
None == "None"

\* The rows of models.Key: name -> data.  "k1" holds well-formed base64,
\* "bad" holds text that is not; "missing" names no row.
KeyRows ==
    [k \in {"k1", "bad"} |->
        IF k = "k1" THEN <<"c", "2", "V", "j", "c", "m", "V", "0">>
                    ELSE <<"c", "2", "V", "j", "c">>]

KeyNames == {None, "k1", "bad", "missing"}

Base64Chars == Letters \cup Digits \cup {"+", "/"}

\* base64.decodestring on padding-free text: characters outside the alphabet
\* are skipped and the rest must come in whole groups of four, or
\* binascii.Error ("Incorrect padding") is raised.
Base64Decodes(data) ==
    Cardinality({i \in 1..Len(data) : data[i] \in Base64Chars}) % 4 = 0

\* create_keyring(key_name): None for no key name; models.Key.DoesNotExist
\* (not caught here) for a name with no row; KeyringException for a row whose
\* data does not decode; else the keyring, identified by the key's name.
create_keyring(key_name) ==
    IF key_name = None
    THEN [raises |-> "none", keyring |-> None]
    ELSE IF key_name \notin DOMAIN KeyRows
    THEN [raises |-> "DoesNotExist", keyring |-> None]
    ELSE IF ~Base64Decodes(KeyRows[key_name])
    THEN [raises |-> "KeyringException", keyring |-> None]
    ELSE [raises |-> "none", keyring |-> key_name]

\* The KeyringException create_keyring raises, as a value.
KeyringError(key_name) ==
    [kind |-> "KeyringException",
     detail |-> <<"Incorrect key data. Verify key: ", key_name, ". Reason: Incorrect padding">>]

\* ------------------------------------------------------------- the server

\* What becomes of one message handed to dns.query.tcp: a response (NOERROR
\* or a refusal), one of the two TSIG errors, a socket error, or no answer
\* at all.
Fates == {"NOERROR", "REFUSED", "PeerBadKey", "PeerBadSignature", "socket.error", "silent"}

\* send_dns_update once dns.query.tcp has ended with `fate`: the response is
\* returned as it is, the two TSIG errors become texts, and any other
\* exception leaves the function.
send_dns_update(fate, dns_server, key_name) ==
    CASE fate = "PeerBadKey" ->
            [raises |-> "none",
             output |-> [kind |-> "text",
                         detail |-> <<"DNS server ", dns_server,
                                      " is not configured for TSIG key: ", key_name, ".">>]]
      [] fate = "PeerBadSignature" ->
            [raises |-> "none",
             output |-> [kind |-> "text",
                         detail |-> <<"DNS server ", dns_server,
                                      " did like the TSIG signature we sent. Check key ",
                                      key_name, " for correctness.">>]]
      [] fate \in {"NOERROR", "REFUSED"} ->
            [raises |-> "none",
             output |-> [kind |-> "response", detail |-> <<fate>>]]
      [] OTHER ->
            [raises |-> fate, output |-> [kind |-> "none", detail |-> <<>>]]

\* ------------------------------------------------------------------ state

VARIABLES
    op,        \* the helper being run: "none" before the call
    args,      \* its arguments
    pc,        \* where the call stands
    response,  \* the list being built (response, delete_response)
    sent,      \* the messages handed to dns.query.tcp so far
    wire,      \* the fate of the message now inside dns.query.tcp
    pending,   \* description of the sub-operation whose output is awaited
    ret,       \* where the call goes on once send_dns_update returns
    keyring,   \* delete_record's keyring
    idx,       \* delete_record's position in rr_list
    rev,       \* add_record's reverse_ip_fqdn, reverse_ip, reverse_domain
    result,    \* "pending", "returned", or the exception that left the call
    replies    \* what every finished send_dns_update did

vars == <<op, args, pc, response, sent, wire, pending, ret, keyring, idx, rev, result, replies>>

NoArgs ==
    [dns_server |-> "", zone_name |-> <<>>, record_name |-> <<>>, record_type |-> "",
     record_data |-> <<>>, ttl |-> 0, key_name |-> None, create_reverse |-> FALSE,
     originating_record |-> <<>>, rr_list |-> <<>>]

NoRev == [derived |-> FALSE, reverse_ip_fqdn |-> <<>>, reverse_ip |-> <<>>, reverse_domain |-> <<>>]

NoDescription == <<"", <<>>>>

Init ==
    /\ op = "none"
    /\ args = NoArgs
    /\ pc = "idle"
    /\ response = <<>>
    /\ sent = <<>>
    /\ wire = "none"
    /\ pending = NoDescription
    /\ ret = "none"
    /\ keyring = "unset"
    /\ idx = 0
    /\ rev = NoRev
    /\ result = "pending"
    /\ replies = <<>>

\* An exception leaves the helper: nothing is returned.
Raise(exc) ==
    /\ result' = exc
    /\ pc' = "done"
    /\ UNCHANGED <<response, sent, wire, pending, ret>>

\* dns.query.tcp(dns_message, dns_server): the message is on its way and the
\* caller blocks until the server's side decides its fate.
Transmit(msg, description, next) ==
    /\ sent' = Append(sent, msg)
    /\ \E fate \in Fates : wire' = fate
    /\ pending' = description
    /\ ret' = next
    /\ pc' = "tcp"
    /\ UNCHANGED <<response, result>>

\* create_update(...) up to the point where it blocks in dns.query.tcp, as
\* the "output" of the outcome `description`; `next` is where the caller
\* goes on after appending the outcome.
create_update(zone_name, record_name, record_type, record_data, description, next) ==
    LET kr == create_keyring(args.key_name)
    IN  IF kr.raises = "DoesNotExist" THEN Raise("DoesNotExist")
        ELSE IF kr.raises = "KeyringException"
        THEN /\ response' = Append(response, [description |-> description,
                                              output |-> KeyringError(args.key_name)])
             /\ pc' = next
             /\ UNCHANGED <<sent, wire, pending, ret, result>>
        ELSE Transmit([zone |-> zone_name, action |-> "replace", name |-> record_name,
                       type |-> record_type, data |-> record_data, ttl |-> args.ttl,
                       keyring |-> kr.keyring],
                      description, next)

\* ---------------------------------------------------------------- add_record

\* A caller invokes add_record(dns_server, zone_name, record_name,
\* record_type, record_data, ttl, key_name, create_reverse).
add_record(dns_server, zone_name, record_name, record_type, record_data, ttl, key_name, create_reverse) ==
    /\ pc = "idle"
    /\ op' = "add_record"
    /\ args' = [NoArgs EXCEPT !.dns_server = dns_server, !.zone_name = zone_name,
                              !.record_name = record_name, !.record_type = record_type,
                              !.record_data = record_data, !.ttl = ttl,
                              !.key_name = key_name, !.create_reverse = create_reverse]
    /\ pc' = "forward"
    /\ UNCHANGED <<response, sent, wire, pending, ret, keyring, idx, rev, result, replies>>

\* The forward record: response.append({description, output: create_update(...)}).
AddForward ==
    /\ pc = "forward"
    /\ create_update(args.zone_name, args.record_name, args.record_type, args.record_data,
                     <<"Forward Record Creation: ", args.record_name \o Dot \o args.zone_name>>,
                     IF args.create_reverse THEN "reverse" ELSE "return")
    /\ UNCHANGED <<op, args, keyring, idx, rev, replies>>

\* `if create_reverse:` -- the reverse name of record_data is derived, split
\* by the regular expression, and a PTR record is created from the pieces.
AddReverse ==
    /\ pc = "reverse"
    /\ LET fa == from_address(args.record_data)
           m  == SearchDigits(fa.name)
       IN  IF ~fa.ok
           THEN Raise("SyntaxError") /\ UNCHANGED rev
           ELSE /\ rev' = [derived |-> TRUE, reverse_ip_fqdn |-> fa.name,
                           reverse_ip |-> m.group1, reverse_domain |-> m.group2]
                /\ IF ~m.matched
                   THEN Raise("AttributeError")
                   ELSE create_update(m.group2, m.group1, "PTR",
                                      args.record_name \o Dot \o args.zone_name \o Dot,
                                      <<"Reverse Record Creation: ", args.record_data>>,
                                      "return")
    /\ UNCHANGED <<op, args, keyring, idx, replies>>

\* ---------------------------------------------------------- add_cname_record

\* A caller invokes add_cname_record(dns_server, zone_name, cname,
\* originating_record, ttl, key_name).
add_cname_record(dns_server, zone_name, cname, originating_record, ttl, key_name) ==
    /\ pc = "idle"
    /\ op' = "add_cname_record"
    /\ args' = [NoArgs EXCEPT !.dns_server = dns_server, !.zone_name = zone_name,
                              !.record_name = cname,
                              !.originating_record = originating_record,
                              !.ttl = ttl, !.key_name = key_name]
    /\ pc' = "cname"
    /\ UNCHANGED <<response, sent, wire, pending, ret, keyring, idx, rev, result, replies>>

\* output = create_update(..., "CNAME", originating_record + ".", ...)
AddCname ==
    /\ pc = "cname"
    /\ create_update(args.zone_name, args.record_name, "CNAME",
                     args.originating_record \o Dot,
                     <<"CNAME points to ", args.record_name \o Dot \o args.zone_name,
                       args.originating_record>>,
                     "return")
    /\ UNCHANGED <<op, args, keyring, idx, rev, replies>>

\* ------------------------------------------------------------- delete_record

\* A caller invokes delete_record(dns_server, rr_list, key_name).
delete_record(dns_server, rr_list, key_name) ==
    /\ pc = "idle"
    /\ op' = "delete_record"
    /\ args' = [NoArgs EXCEPT !.dns_server = dns_server, !.rr_list = rr_list,
                              !.key_name = key_name]
    /\ pc' = "keyring"
    /\ UNCHANGED <<response, sent, wire, pending, ret, keyring, idx, rev, result, replies>>

\* try: keyring = create_keyring(key_name); a KeyringException returns the
\* one-element list at once.
DeleteKeyring ==
    /\ pc = "keyring"
    /\ LET kr == create_keyring(args.key_name)
       IN  IF kr.raises = "DoesNotExist"
           THEN Raise("DoesNotExist") /\ UNCHANGED <<keyring, idx>>
           ELSE IF kr.raises = "KeyringException"
           THEN /\ response' = <<[description |-> <<"Error in deletion process">>,
                                  output |-> KeyringError(args.key_name)]>>
                /\ pc' = "return"
                /\ UNCHANGED <<sent, wire, pending, ret, result, keyring, idx>>
           ELSE /\ keyring' = kr.keyring
                /\ idx' = 1
                /\ pc' = "loop"
                /\ UNCHANGED <<response, sent, wire, pending, ret, result>>
    /\ UNCHANGED <<op, args, rev, replies>>

\* One turn of `for current_rr in rr_list`: the identifier is split by the
\* regular expression and a delete of `record` in `domain` is sent.
DeleteNext ==
    /\ pc = "loop"
    /\ IF idx > Len(args.rr_list)
       THEN /\ pc' = "return"
            /\ UNCHANGED <<response, sent, wire, pending, ret, result, idx>>
       ELSE LET current_rr == args.rr_list[idx]
                re_record  == SearchWord(current_rr)
            IN  /\ idx' = idx + 1
                /\ IF ~re_record.matched
                   THEN Raise("AttributeError")
                   ELSE Transmit([zone |-> re_record.group2, action |-> "delete",
                                  name |-> re_record.group1, type |-> "", data |-> <<>>,
                                  ttl |-> 0, keyring |-> keyring],
                                 <<"Delete Record: ", current_rr>>, "loop")
    /\ UNCHANGED <<op, args, keyring, rev, replies>>

\* ------------------------------------------------------------ send_dns_update

\* dns.query.tcp ends (the server answered, or the connection failed) and
\* send_dns_update returns its output to create_update / delete_record, which
\* append the outcome; an exception it does not catch leaves the helper.
\* A message whose fate is "silent" never gets here: the call passes no
\* timeout, so the caller stays blocked.
TcpReturn ==
    /\ pc = "tcp"
    /\ wire # "silent"
    /\ LET r == send_dns_update(wire, args.dns_server, args.key_name)
       IN  /\ replies' = Append(replies, [fate |-> wire, raises |-> r.raises,
                                          output |-> r.output])
           /\ IF r.raises # "none"
              THEN /\ result' = r.raises
                   /\ pc' = "done"
                   /\ UNCHANGED response
              ELSE /\ response' = Append(response, [description |-> pending,
                                                    output |-> r.output])
                   /\ pc' = ret
                   /\ UNCHANGED result
    /\ wire' = "none"
    /\ UNCHANGED <<op, args, sent, pending, ret, keyring, idx, rev>>

\* return response / return delete_response
Return ==
    /\ pc = "return"
    /\ result' = "returned"
    /\ pc' = "done"
    /\ UNCHANGED <<op, args, response, sent, wire, pending, ret, keyring, idx, rev, replies>>

\* The callers: each helper is invoked on arguments drawn from the inputs.
CallAddRecord ==
    /\ pc = "idle"
    /\ \E dns_server \in DnsServers, td \in TypedData, record_name \in RecordNames,
          ttl \in TTLs, key_name \in KeyNames, create_reverse \in BOOLEAN :
          add_record(dns_server, ZoneText, record_name, td[1], td[2], ttl, key_name,
                     create_reverse)

CallAddCnameRecord ==
    /\ pc = "idle"
    /\ \E dns_server \in DnsServers, cname \in CnameNames, ttl \in TTLs,
          key_name \in KeyNames :
          add_cname_record(dns_server, ZoneText, cname, Host1 \o Dot \o ZoneText, ttl,
                           key_name)

CallDeleteRecord ==
    /\ pc = "idle"
    /\ \E dns_server \in DnsServers, rr_list \in RRLists, key_name \in KeyNames :
          delete_record(dns_server, rr_list, key_name)

Next ==
    \/ CallAddRecord
    \/ AddForward
    \/ AddReverse
    \/ CallAddCnameRecord
    \/ AddCname
    \/ CallDeleteRecord
    \/ DeleteKeyring
    \/ DeleteNext
    \/ TcpReturn
    \/ Return

Spec == Init /\ [][Next]_vars

\* An answer that is on its way arrives, and send_dns_update then goes on:
\* the return of dns.query.tcp is never put off for ever.
FairSpec == Spec /\ WF_vars(TcpReturn)

\* ------------------------------------------------------------------ claims

\* The labels of a dotted name, cut at every dot.
Labels(name) == SplitOn(name, ".")

CredentialFails == create_keyring(args.key_name).raises # "none"

IsForwardOutcome(o) ==
    /\ Len(o.description) = 2
    /\ o.description[1] = "Forward Record Creation: "
    /\ o.description[2] = args.record_name \o Dot \o args.zone_name

IsReverseOutcome(o) ==
    /\ Len(o.description) = 2
    /\ o.description[1] = "Reverse Record Creation: "
    /\ o.description[2] = args.record_data

\* C1: whenever delete_record returns from a call on N identifiers, it
\* returns exactly N outcomes, the i-th describing the i-th identifier; when
\* the credential lookup failed, all N outcomes report that failure.
C1_DeleteOneOutcomePerIdentifier ==
    (op = "delete_record" /\ pc = "done" /\ result = "returned") =>
        /\ Len(response) = Len(args.rr_list)
        /\ \A i \in 1..Len(response) :
              /\ Len(response[i].description) = 2
              /\ response[i].description[2] = args.rr_list[i]
        /\ CredentialFails =>
              \A i \in 1..Len(response) : response[i].output = KeyringError(args.key_name)

\* C2: once the credential resolves, a failure while deleting one identifier
\* never aborts the batch: delete_record returns, with one outcome for every
\* identifier of the list.
C2_DeleteNeverAborts ==
    (op = "delete_record" /\ pc = "done" /\ ~CredentialFails) =>
        /\ result = "returned"
        /\ Len(response) = Len(args.rr_list)

\* C3: when credential resolution fails, add_record returns (it does not
\* raise) outcomes that report the credential failure, and no DNS message is
\* transmitted at any point of the call.
C3_AddRecordCredentialFailure ==
    (op = "add_record" /\ CredentialFails) =>
        /\ sent = <<>>
        /\ pc = "done" =>
              /\ result = "returned"
              /\ Len(response) >= 1
              /\ \A i \in 1..Len(response) :
                    response[i].output.kind = "KeyringException"

\* C4: add_record returns one outcome per requested sub-operation, in order:
\* the forward outcome alone without create_reverse; with create_reverse on
\* an address record, the forward outcome and then the PTR outcome, the PTR
\* update naming the first label of the address's reverse name inside the
\* zone made of the remaining labels, with data "<name>.<zone>.".
C4_OneOutcomePerSubOperation ==
    (op = "add_record" /\ pc = "done" /\ result = "returned") =>
        /\ ~args.create_reverse =>
              /\ Len(response) = 1
              /\ IsForwardOutcome(response[1])
        /\ (args.create_reverse /\ args.record_type \in {"A", "AAAA"}) =>
              /\ Len(response) = 2
              /\ IsForwardOutcome(response[1])
              /\ IsReverseOutcome(response[2])
              /\ \A i \in 1..Len(sent) :
                    sent[i].type = "PTR" =>
                        LET labels == Labels(from_address(args.record_data).name)
                        IN  /\ sent[i].name = labels[1]
                            /\ sent[i].zone = Join(Tail(labels))
                            /\ sent[i].data = args.record_name \o Dot
                                                \o args.zone_name \o Dot

\* For each sample address a.b.c.d: its text, and the leaf label, parent zone
\* and reverse name the claim expects.
IPv4Expected ==
    {[text   |-> Join(<<ToDec(a), ToDec(b), ToDec(c), ToDec(d)>>),
      leaf   |-> ToDec(d),
      parent |-> Join(<<ToDec(c), ToDec(b), ToDec(a)>>) \o Dot \o InAddrArpa,
      fqdn   |-> Join(<<ToDec(d), ToDec(c), ToDec(b), ToDec(a)>>) \o Dot \o InAddrArpa] :
        a, b, c, d \in Octets}

\* C5: for every IPv4 address a.b.c.d the reverse split of add_record yields
\* the leaf label "d" and the parent zone "c.b.a.in-addr.arpa.", and leaf,
\* a dot and the parent zone make the reverse name "d.c.b.a.in-addr.arpa.".
C5_IPv4ReverseSplit ==
    rev.derived =>
        \A e \in IPv4Expected :
            e.text = args.record_data =>
                /\ rev.reverse_ip = e.leaf
                /\ rev.reverse_domain = e.parent
                /\ rev.reverse_ip \o Dot \o rev.reverse_domain = e.fqdn
                /\ rev.reverse_ip_fqdn = e.fqdn

\* 10.20.0.5 has been split into "5" and "0.20.10.in-addr.arpa.".
C5_Witness ==
    /\ rev.derived
    /\ args.record_data = <<"1", "0", ".", "2", "0", ".", "0", ".", "5">>
    /\ rev.reverse_ip = <<"5">>
    /\ rev.reverse_domain =
          <<"0", ".", "2", "0", ".", "1", "0", ".",
            "i", "n", "-", "a", "d", "d", "r", ".", "a", "r", "p", "a", ".">>

\* C6: for every IPv6 address the reverse split of add_record cuts the
\* ip6.arpa name at its first label boundary: the leaf is the first nibble
\* label, the parent zone all remaining labels, and leaf, a dot and the
\* parent zone make the whole reverse name.
C6_IPv6ReverseSplit ==
    (rev.derived /\ IsIPv6Text(args.record_data)) =>
        LET labels == Labels(rev.reverse_ip_fqdn)
        IN  /\ rev.reverse_ip = labels[1]
            /\ rev.reverse_domain = Join(Tail(labels))
            /\ rev.reverse_ip \o Dot \o rev.reverse_domain = rev.reverse_ip_fqdn

\* C7: every deletion update of delete_record names exactly the first label
\* of its identifier "<label>.<zone>", inside the zone made of all the
\* remaining labels.  (The i-th message sent belongs to the i-th identifier.)
C7_DeleteTargetsFirstLabel ==
    op = "delete_record" =>
        \A i \in 1..Len(sent) :
            LET labels == Labels(args.rr_list[i])
            IN  /\ sent[i].name = labels[1]
                /\ sent[i].zone = Join(Tail(labels))

\* The failure class of what happened to a message.
FailureClass(fate) ==
    CASE fate = "PeerBadKey" -> "AuthKeyRejected"
      [] fate = "PeerBadSignature" -> "AuthSignatureRejected"
      [] fate = "socket.error" -> "Unreachable"
      [] fate = "REFUSED" -> "ServerError"
      [] OTHER -> "Success"

\* C8: for every message sent, send_dns_update returns a result to its
\* caller, and two messages that ended in different failure classes never
\* get the same outcome detail.
C8_FailureClassesReturned ==
    \A i \in 1..Len(replies) :
        /\ replies[i].raises = "none"
        /\ \A j \in 1..Len(replies) :
              FailureClass(replies[i].fate) # FailureClass(replies[j].fate)
                  => replies[i].output # replies[j].output

\* C9: every call of send_dns_update eventually returns to its caller, also
\* when the server never answers.
C9_SendReturns == (pc = "tcp") ~> (pc # "tcp")

\* C10: with create_reverse set on a record that is not an address record
\* (A, AAAA), add_record attempts no reverse derivation, transmits no PTR
\* update, and still returns the outcome of the forward update.
C10_ReverseOnlyForAddressRecords ==
    (op = "add_record" /\ args.create_reverse /\ args.record_type \notin {"A", "AAAA"}) =>
        /\ ~rev.derived
        /\ \A i \in 1..Len(sent) : sent[i].type # "PTR"
        /\ result \notin {"SyntaxError", "AttributeError"}
        /\ (pc = "done" /\ result = "returned") => Len(response) = 1

====
